---------------------------- MODULE Spec2Model ----------------------------
(***************************************************************************)
(* Model of src/main.py: the FastAPI endpoint process_drive_file and the   *)
(* four functions it sequences (download_file_from_drive, load_document,   *)
(* chunk_documents, embed_and_store), together with the state they share   *)
(* between requests: the scratch directory and the Qdrant collection.      *)
(*                                                                         *)
(* Strings are sequences of one-character strings, so that os.path.join,   *)
(* os.path.splitext, str.lower and the text splitter are computed          *)
(* character by character.                                                 *)
(***************************************************************************)
EXTENDS Integers, Sequences, FiniteSets, TLC

(***************************************************************************)
(* Bounds of the model.                                                    *)
(***************************************************************************)
\* requests that arrive
MaxReqs == 2
\* words of a generated text (the inputs of SpecChunk)
MaxWords == 2

Reqs == 1..MaxReqs

\* The serving processes (uvicorn workers).  They share the scratch directory and
\* the collection; two are enough for any two requests to overlap.
Procs == {"w1", "w2"}

NoProc == "none"

(***************************************************************************)
(* Configuration (main.py:15-20, 60).                                      *)
(***************************************************************************)
chunk_size == 4000
chunk_overlap == 200

(***************************************************************************)
(* Strings.                                                                *)
(***************************************************************************)
Run(c, n) == [i \in 1..n |-> c]

Upper == <<"A", "C", "D", "F", "O", "P", "S", "T", "V", "X">>
LowerOf == <<"a", "c", "d", "f", "o", "p", "s", "t", "v", "x">>

\* str.lower() on one character
LowerChar(c) ==
    IF \E i \in 1..Len(Upper) : Upper[i] = c
    THEN LowerOf[CHOOSE i \in 1..Len(Upper) : Upper[i] = c]
    ELSE c

\* str.lower()
lower(s) == [i \in 1..Len(s) |-> LowerChar(s[i])]

\* str.rfind(c): the last index of c in s, 0 when there is none (Python's -1, 1-based)
rfind(s, c) ==
    LET hits == {i \in 1..Len(s) : s[i] = c}
    IN  IF hits = {} THEN 0 ELSE CHOOSE i \in hits : \A j \in hits : j <= i

\* tempfile.gettempdir()
tempdir == <<"/", "t", "m", "p">>

\* os.path.join(a, b) (posixpath): an absolute b discards a
path_join(a, b) ==
    IF Len(b) > 0 /\ b[1] = "/" THEN b
    ELSE IF Len(a) = 0 \/ a[Len(a)] = "/" THEN a \o b
    ELSE a \o <<"/">> \o b

\* os.path.splitext(p)[-1] (posixpath): from the last dot of the last path component,
\* unless only dots precede it in that component
splitext_ext(p) ==
    LET sepIndex == rfind(p, "/")
        dotIndex == rfind(p, ".")
    IN  IF dotIndex > sepIndex /\ \E k \in (sepIndex + 1)..(dotIndex - 1) : p[k] # "."
        THEN SubSeq(p, dotIndex, Len(p))
        ELSE <<>>

(***************************************************************************)
(* RecursiveCharacterTextSplitter(chunk_size, chunk_overlap), as           *)
(* chunk_documents configures it (main.py:60): the default separators,     *)
(* keep_separator (each separator stays at the start of the split that     *)
(* follows it), strip_whitespace, length in characters.  A split and a     *)
(* chunk are substrings of the text and are kept as the pair <<first,      *)
(* last>> of their positions in it; the splits joined into a chunk are     *)
(* consecutive, so current_doc is the range splits[first..i-1].            *)
(* The loops over the splits are folded by halves (left half, then right   *)
(* half from the state the left half ends in): the same steps in the same  *)
(* order as the for and while loops.                                       *)
(***************************************************************************)
Separators == << <<"\n", "\n">>, <<"\n">>, <<" ">>, <<>> >>

\* str.strip() removes these
IsWs(c) == c \in {" ", "\n"}

MatchAt(text, hi, sep, i) ==
    /\ i + Len(sep) - 1 <= hi
    /\ \A k \in 1..Len(sep) : text[i + k - 1] = sep[k]

RECURSIVE RunStart(_, _, _, _)
RunStart(text, lo, c, i) ==
    IF i > lo /\ text[i - 1] = c THEN RunStart(text, lo, c, i - 1) ELSE i

\* re.split takes leftmost, non-overlapping matches: in a run of newlines "\n\n"
\* matches at every second position from the start of the run
IsMatch(text, lo, hi, sep, i) ==
    /\ MatchAt(text, hi, sep, i)
    /\ (Len(sep) = 2 => (i - RunStart(text, lo, sep[1], i)) % 2 = 0)

RECURSIVE Matches(_, _, _, _, _, _)
Matches(text, lo, hi, sep, a, b) ==
    IF a > b THEN <<>>
    ELSE IF a = b THEN (IF IsMatch(text, lo, hi, sep, a) THEN <<a>> ELSE <<>>)
    ELSE LET mid == (a + b) \div 2
         IN  Matches(text, lo, hi, sep, a, mid) \o Matches(text, lo, hi, sep, mid + 1, b)

\* re.search(separator, text)
HasMatch(text, lo, hi, sep) == \E i \in lo..hi : MatchAt(text, hi, sep, i)

\* _split_text_with_regex(text[lo..hi], sep, keep_separator=True), empty splits dropped
split_text_with_regex(text, lo, hi, sep) ==
    IF sep = <<>> THEN [i \in 1..(hi - lo + 1) |-> <<lo + i - 1, lo + i - 1>>]
    ELSE LET m == Matches(text, lo, hi, sep, lo, hi)
             n == Len(m)
             rest == [j \in 1..n |-> <<m[j], IF j < n THEN m[j + 1] - 1 ELSE hi>>]
         IN  IF n = 0 THEN (IF lo <= hi THEN <<<<lo, hi>>>> ELSE <<>>)
             ELSE IF m[1] > lo THEN <<<<lo, m[1] - 1>>>> \o rest ELSE rest

SLen(s) == s[2] - s[1] + 1

RECURSIVE LStrip(_, _, _)
LStrip(text, s, e) == IF s <= e /\ IsWs(text[s]) THEN LStrip(text, s + 1, e) ELSE s

RECURSIVE RStrip(_, _, _)
RStrip(text, s, e) == IF s <= e /\ IsWs(text[e]) THEN RStrip(text, s, e - 1) ELSE e

\* docs with _join_docs(splits[first..last]) appended: the join, stripped, unless empty
join_docs(text, docs, splits, first, last) ==
    IF first > last THEN docs
    ELSE LET s == LStrip(text, splits[first][1], splits[last][2])
             e == RStrip(text, s, splits[last][2])
         IN  IF s > e THEN docs ELSE Append(docs, <<s, e>>)

\* (mutant) the overlap is not kept: current_doc is emptied
PopCondNoOverlap(st, len) == st.total > 0

\* the while condition of _merge_splits
PopCond(st, len) ==
    \/ st.total > chunk_overlap
    \/ (st.total + len > chunk_size /\ st.total > 0)

\* one turn of the while loop: current_doc = current_doc[1:]
PopStep(st, splits, len) ==
    IF PopCond(st, len)
    THEN [st EXCEPT !.total = st.total - SLen(splits[st.first]), !.first = st.first + 1]
    ELSE st

\* the while loop, at most n turns (n = len(current_doc))
RECURSIVE PopWhile(_, _, _, _)
PopWhile(st, splits, len, n) ==
    IF n <= 0 THEN st
    ELSE IF n = 1 THEN PopStep(st, splits, len)
    ELSE LET half == PopWhile(st, splits, len, n \div 2)
         IN  IF half.total >= 0 THEN PopWhile(half, splits, len, n - (n \div 2)) ELSE half

\* the body of `for d in splits` for d = splits[i]
MergeStep(text, st, splits, i) ==
    LET len == SLen(splits[i])
        st1 == IF st.total + len > chunk_size /\ st.first < i
               THEN PopWhile([st EXCEPT !.docs = join_docs(text, st.docs, splits, st.first, i - 1)],
                             splits, len, i - st.first)
               ELSE st
    IN  [st1 EXCEPT !.total = st1.total + len]

RECURSIVE MergeRange(_, _, _, _, _)
MergeRange(text, st, splits, a, b) ==
    IF a > b THEN st
    ELSE IF a = b THEN MergeStep(text, st, splits, a)
    ELSE LET mid == (a + b) \div 2
             left == MergeRange(text, st, splits, a, mid)
         IN  IF left.total >= 0 THEN MergeRange(text, left, splits, mid + 1, b) ELSE left

\* _merge_splits(splits[a..b], separator = "")
merge_splits(text, splits, a, b) ==
    LET st == MergeRange(text, [docs |-> <<>>, first |-> a, total |-> 0], splits, a, b)
    IN  join_docs(text, st.docs, splits, st.first, b)

\* the first separator, from the k-th on, that is "" or occurs in the text
RECURSIVE SepIndex(_, _, _, _)
SepIndex(text, lo, hi, k) ==
    IF Separators[k] = <<>> \/ HasMatch(text, lo, hi, Separators[k]) THEN k
    ELSE SepIndex(text, lo, hi, k + 1)

RECURSIVE split_text(_, _, _, _)
RECURSIVE SplitRange(_, _, _, _, _, _)
RECURSIVE SplitStep(_, _, _, _, _)

\* the body of `for s in splits` of _split_text for s = splits[i]; _good_splits is
\* splits[st.good..i-1]
SplitStep(text, st, splits, k, i) ==
    IF SLen(splits[i]) < chunk_size THEN st
    ELSE LET flushed == IF st.good < i
                        THEN st.final \o merge_splits(text, splits, st.good, i - 1)
                        ELSE st.final
         IN  [final |-> IF Separators[k] = <<>> THEN Append(flushed, splits[i])
                        ELSE flushed \o split_text(text, splits[i][1], splits[i][2], k + 1),
              good |-> i + 1]

SplitRange(text, st, splits, k, a, b) ==
    IF a > b THEN st
    ELSE IF a = b THEN SplitStep(text, st, splits, k, a)
    ELSE LET mid == (a + b) \div 2
             left == SplitRange(text, st, splits, k, a, mid)
         IN  IF left.good >= 1 THEN SplitRange(text, left, splits, k, mid + 1, b) ELSE left

\* _split_text(text[lo..hi], separators[k0:])
split_text(text, lo, hi, k0) ==
    LET k == SepIndex(text, lo, hi, k0)
        splits == split_text_with_regex(text, lo, hi, Separators[k])
        n == Len(splits)
        st == SplitRange(text, [final |-> <<>>, good |-> 1], splits, k, 1, n)
    IN  IF st.good <= n THEN st.final \o merge_splits(text, splits, st.good, n) ELSE st.final

\* the chunks of document number d: [doc, first, last]
DocChunks(d, text) ==
    LET w == split_text(text, 1, Len(text), 1)
    IN  [i \in 1..Len(w) |-> [doc |-> d, first |-> w[i][1], last |-> w[i][2]]]

RECURSIVE SplitDocs(_, _)
SplitDocs(documents, d) ==
    IF d > Len(documents) THEN <<>>
    ELSE DocChunks(d, documents[d]) \o SplitDocs(documents, d + 1)

\* chunk_documents(docs): splitter.split_documents(docs), the chunks of each document
\* in order
chunk_documents(documents) == SplitDocs(documents, 1)

(***************************************************************************)
(* The remote store.  A file has a display name and a content, a sequence  *)
(* of blocks; the downloader transfers one block per next_chunk call, and  *)
(* a block of a csv or pdf file is one row or page.  The variable drive    *)
(* holds the identifiers that resolve; "f0" never resolves.                *)
(***************************************************************************)
DriveName(f) ==
    CASE f = "f1" -> <<"a", ".", "t", "x", "t">>
      [] f = "f2" -> <<"a", ".", "t", "x", "t">>
      [] f = "f3" -> <<"/", "t", "m", "p", "/", "a", ".", "t", "x", "t">>
      [] f = "f4" -> <<"b", ".", "d", "o", "c", "x">>
      [] f = "f5" -> <<"c", ".", "C", "S", "V">>
      [] f = "f6" -> <<"d", ".", "p", "d", "f">>
      [] f = "f7" -> <<".", "t", "x", "t">>
      [] f = "f8" -> <<"n", "o", "t", "e", "s">>

DriveContent(f) ==
    CASE f = "f1" -> << <<"x", " ">>, <<"y">> >>
      [] f = "f2" -> << <<"z">> >>
      [] f = "f3" -> << <<"w">> >>
      [] f = "f4" -> << <<"d">> >>
      [] f = "f5" -> << <<"r">>, <<"s">> >>
      [] f = "f6" -> << <<"p">> >>
      [] f = "f7" -> << <<"h">> >>
      [] f = "f8" -> << <<"n">> >>

\* the stores a run starts from
Catalogues ==
    {{"f1", "f5"}, {"f1", "f2"}, {"f1", "f3"}, {"f4"}, {"f6"}, {"f7"}, {"f8"}}

(***************************************************************************)
(* The scratch directory: a function from the paths of its files to their  *)
(* data, a sequence of blocks.                                             *)
(***************************************************************************)
\* what a seek past the end leaves between the old end and the write
Hole == <<"0">>

\* files with path bound to data
Put(files, path, data) ==
    [q \in DOMAIN files \cup {path} |-> IF q = path THEN data ELSE files[q]]

\* io.FileIO(path, "wb"): the file is created, or truncated to nothing
open_wb(files, path) == Put(files, path, <<>>)

\* f.write(block) at position k of the open file (blocks, from 1)
write_at(files, path, k, block) ==
    LET old == files[path]
        n == IF Len(old) > k THEN Len(old) ELSE k
    IN  Put(files, path, [i \in 1..n |-> IF i = k THEN block
                                         ELSE IF i <= Len(old) THEN old[i] ELSE Hole])

(***************************************************************************)
(* load_document (main.py:44-56).                                          *)
(***************************************************************************)
pdf == <<".", "p", "d", "f">>
txt == <<".", "t", "x", "t">>
csv == <<".", "c", "s", "v">>

\* ext = os.path.splitext(file_path)[-1].lower()
ext_of(file_path) == lower(splitext_ext(file_path))

\* (mutant) any other extension is read as text
loader_for_text_default(ext) ==
    IF ext = pdf THEN "PyPDFLoader"
    ELSE IF ext = csv THEN "CSVLoader"
    ELSE "TextLoader"

\* the if/elif chain: the loader class for ext, "raise" for the else branch
loader_for(ext) ==
    IF ext = pdf THEN "PyPDFLoader"
    ELSE IF ext = txt THEN "TextLoader"
    ELSE IF ext = csv THEN "CSVLoader"
    ELSE "raise"

RECURSIVE Concat(_)
Concat(blocks) == IF blocks = <<>> THEN <<>> ELSE Head(blocks) \o Concat(Tail(blocks))

\* loader.load(): TextLoader gives one document, the whole text of the file;
\* CSVLoader one document per row and PyPDFLoader one per page
load(loader, data) == IF loader = "TextLoader" THEN <<Concat(data)>> ELSE data

(***************************************************************************)
(* Exceptions: [type, text], text being str(e).                            *)
(***************************************************************************)
\* the classes `except Exception` catches: every exception the stages raise
ExceptionClasses == {"HttpError", "OSError", "ValueError", "RuntimeError", "ResponseError"}

Exc(type, head, detail) == [type |-> type, text |-> <<head, detail>>]

NotFound(f) == Exc("HttpError", "File not found: ", <<f>>)
HttpFailure == Exc("HttpError", "HttpError", <<>>)
ScratchFailure == Exc("OSError", "OSError", <<>>)
Unsupported(ext) == Exc("ValueError", "Unsupported file format: ", ext)
LoadFailure == Exc("RuntimeError", "Error loading", <<>>)
StoreFailure == Exc("ResponseError", "ResponseError", <<>>)

(***************************************************************************)
(* State.                                                                  *)
(***************************************************************************)
VARIABLES
    drive,   \* the file identifiers that resolve in the remote store
    req,     \* per request: the handler's position, its locals and what it has called
    fs,      \* the scratch directory: path -> data (the blocks of the file)
    points,  \* the number of points in the collection COLLECTION_NAME
    cin,     \* SpecChunk: the text handed to chunk_documents, as its words
    cout,    \* SpecChunk: the chunks it returned
    cpc      \* SpecChunk: "ready" before the call, "done" after ("off" in Spec)

vars == <<drive, req, fs, points, cin, cout, cpc>>

\* the calls of the handler, in the order of main.py:83-98
Ops == <<"get_metadata", "download_file_from_drive", "load_document",
         "chunk_documents", "embed_and_store">>

OpSet == {Ops[i] : i \in 1..Len(Ops)}

NoResponse == [pending |-> TRUE]

NewRequest ==
    [pc |-> "idle", proc |-> NoProc, file_id |-> "", file_name |-> <<>>, file_path |-> <<>>,
     offset |-> 0, docs |-> <<>>, chunks |-> <<>>, response |-> NoResponse,
     calls |-> [o \in OpSet |-> 0], returned |-> {}, raised |-> {},
     loader |-> "none", read |-> [done |-> FALSE, data |-> <<>>], stored |-> 0]

\* the identifiers a request may carry
FileIds == drive \cup {"f0"}

Exists(f) == f \in drive

Terminal(rec) == rec.pc \in {"responded", "propagated"}

Active(rec) == rec.pc # "idle" /\ ~Terminal(rec)

(***************************************************************************)
(* The handler's frame (main.py:78-104).                                   *)
(***************************************************************************)
\* (mutant) the handler awaits its I/O, and the event loop starts other handlers
LoopYields(p) == TRUE

\* `async def` without an await: once the event loop of process p has started a
\* handler it runs nothing else until that handler has returned
LoopFree(p) == \A q \in Reqs : req[q].proc = p => ~Active(req[q])

\* a call starts
Enter(rec, op) == [rec EXCEPT !.calls[op] = @ + 1]

\* a call returns
Return(rec, op) == [rec EXCEPT !.returned = @ \cup {op}]

\* (mutant) `except ValueError as e`
CatchesValueError(e) == e.type = "ValueError"

\* `except Exception as e`
Catches(e) == e.type \in ExceptionClasses

\* where the handler stands before op, and after it
PcBefore(op) ==
    CASE op = "get_metadata" -> "metadata"
      [] op = "download_file_from_drive" -> "download"
      [] op = "load_document" -> "load"
      [] op = "chunk_documents" -> "chunk"
      [] op = "embed_and_store" -> "embed"

PcAfter(op) ==
    CASE op = "get_metadata" -> "download"
      [] op = "download_file_from_drive" -> "load"
      [] op = "load_document" -> "chunk"
      [] op = "chunk_documents" -> "embed"
      [] op = "embed_and_store" -> "responded"

\* (mutant) a try/except around each stage that logs the error and goes on
ExceptContinues(rec, op, e) ==
    [rec EXCEPT !.raised = @ \cup {op}, !.pc = PcAfter(op),
                !.response = IF op = "embed_and_store" THEN [error |-> e.text] ELSE @]

\* (mutant) a stage that raised is called again
ExceptRetries(rec, op, e) == [rec EXCEPT !.raised = @ \cup {op}, !.pc = PcBefore(op)]

\* (mutant) a download that raised is passed over, and the handler goes on to parse
\* what the scratch directory holds
ExceptUsesStale(rec, op, e) ==
    IF op = "download_file_from_drive"
    THEN [rec EXCEPT !.raised = @ \cup {op}, !.pc = "load"]
    ELSE [rec EXCEPT !.raised = @ \cup {op}, !.pc = "responded",
                     !.response = [error |-> e.text]]

\* op raises e: the except clause returns {"error": str(e)}
Except(rec, op, e) ==
    IF Catches(e)
    THEN [rec EXCEPT !.raised = @ \cup {op}, !.pc = "responded",
                     !.response = [error |-> e.text]]
    ELSE [rec EXCEPT !.raised = @ \cup {op}, !.pc = "propagated"]

\* return {"status": "success", "file": file_name, "chunks": len(chunks)}
Success(rec) ==
    [rec EXCEPT !.pc = "responded",
                !.response = [status |-> "success", file |-> rec.file_name,
                              chunks |-> Len(rec.chunks)]]

\* (mutant) a scratch path of the request's own file identifier
scratch_path_by_id(rec) == path_join(tempdir, <<rec.file_id, "-">> \o rec.file_name)

\* file_path = os.path.join(tempfile.gettempdir(), file_name)
scratch_path(rec) == path_join(tempdir, rec.file_name)

\* the request arrives at process p, whose event loop starts the handler (the
\* requests are numbered in the order they arrive, and the processes being
\* interchangeable the first one arrives at w1)
Receive(r, p, f) ==
    /\ req[r].pc = "idle"
    /\ \A q \in 1..(r - 1) : req[q].pc # "idle"
    /\ LoopFree(p)
    /\ (\A q \in Reqs : req[q].proc = NoProc) => p = "w1"
    /\ req' = [req EXCEPT ![r] = [@ EXCEPT !.pc = "metadata", !.proc = p, !.file_id = f]]
    /\ UNCHANGED <<drive, fs, points, cin, cout, cpc>>

\* main.py:82-86: service.files().get(fileId=file_id, ...).execute()
GetMetadata(r) ==
    LET rec == Enter(req[r], "get_metadata")
    IN  /\ req[r].pc = "metadata"
        /\ \/ /\ Exists(rec.file_id)
              /\ req' = [req EXCEPT ![r] =
                    [Return(rec, "get_metadata") EXCEPT
                        !.file_name = DriveName(rec.file_id), !.pc = "download"]]
           \/ /\ Exists(rec.file_id)
              /\ req' = [req EXCEPT ![r] = Except(rec, "get_metadata", HttpFailure)]
           \/ /\ ~Exists(rec.file_id)
              /\ req' = [req EXCEPT ![r] = Except(rec, "get_metadata", NotFound(rec.file_id))]
        /\ UNCHANGED <<drive, fs, points, cin, cout, cpc>>

\* main.py:89, 31-35: download_file_from_drive is entered and opens the scratch file
OpenScratch(r) ==
    LET rec == Enter(req[r], "download_file_from_drive")
        path == scratch_path(rec)
    IN  /\ req[r].pc = "download"
        /\ \/ /\ req' = [req EXCEPT ![r] =
                    [rec EXCEPT !.file_path = path, !.offset = 0, !.pc = "next_chunk"]]
              /\ fs' = open_wb(fs, path)
           \/ /\ req' = [req EXCEPT ![r] =
                    Except(rec, "download_file_from_drive", ScratchFailure)]
              /\ fs' = fs
        /\ UNCHANGED <<drive, points, cin, cout, cpc>>

\* main.py:38-41: one downloader.next_chunk(); after the last one the file is closed
\* and download_file_from_drive returns file_path
NextChunk(r) ==
    LET rec == req[r]
        content == DriveContent(rec.file_id)
        k == rec.offset + 1
    IN  /\ rec.pc = "next_chunk"
        /\ \/ /\ fs' = write_at(fs, rec.file_path, k, content[k])
              /\ req' = [req EXCEPT ![r] =
                    IF k = Len(content)
                    THEN [Return(rec, "download_file_from_drive") EXCEPT
                            !.offset = k, !.pc = "load"]
                    ELSE [rec EXCEPT !.offset = k]]
           \/ /\ req' = [req EXCEPT ![r] =
                    Except(rec, "download_file_from_drive", HttpFailure)]
              /\ fs' = fs
        /\ UNCHANGED <<drive, points, cin, cout, cpc>>

\* main.py:92, 44-56: load_document(file_path)
LoadDocument(r) ==
    LET rec == Enter(req[r], "load_document")
        ext == ext_of(rec.file_path)
        loader == loader_for(ext)
        data == fs[rec.file_path]
    IN  /\ req[r].pc = "load"
        /\ \/ /\ loader = "raise"
              /\ req' = [req EXCEPT ![r] = Except(rec, "load_document", Unsupported(ext))]
           \/ /\ loader # "raise"
              /\ req' = [req EXCEPT ![r] =
                    [Return(rec, "load_document") EXCEPT
                        !.loader = loader, !.read = [done |-> TRUE, data |-> data],
                        !.docs = load(loader, data), !.pc = "chunk"]]
           \/ /\ loader # "raise"
              /\ req' = [req EXCEPT ![r] =
                    Except([rec EXCEPT !.loader = loader], "load_document", LoadFailure)]
        /\ UNCHANGED <<drive, fs, points, cin, cout, cpc>>

\* main.py:95, 59-63: chunk_documents(docs)
ChunkDocuments(r) ==
    LET rec == Enter(req[r], "chunk_documents")
    IN  /\ req[r].pc = "chunk"
        /\ req' = [req EXCEPT ![r] =
              [Return(rec, "chunk_documents") EXCEPT
                  !.chunks = chunk_documents(rec.docs), !.pc = "embed"]]
        /\ UNCHANGED <<drive, fs, points, cin, cout, cpc>>

\* main.py:98-100, 66-75: embed_and_store(chunks), then the success response.
\* Qdrant.from_documents embeds and upserts every chunk as a new point; when it
\* raises, any number of the points may already be in the collection
EmbedAndStore(r) ==
    LET rec == Enter(req[r], "embed_and_store")
        n == Len(rec.chunks)
    IN  /\ req[r].pc = "embed"
        /\ \/ /\ points' = points + n
              /\ req' = [req EXCEPT ![r] =
                    Success([Return(rec, "embed_and_store") EXCEPT !.stored = n])]
           \/ \E k \in 0..n :
                /\ points' = points + k
                /\ req' = [req EXCEPT ![r] =
                      Except([rec EXCEPT !.stored = k], "embed_and_store", StoreFailure)]
        /\ UNCHANGED <<drive, fs, cin, cout, cpc>>

Init ==
    /\ drive \in Catalogues
    /\ req = [r \in Reqs |-> NewRequest]
    /\ fs = <<>>
    /\ points = 0
    /\ cin = <<>>
    /\ cout = <<>>
    /\ cpc = "off"

Next ==
    \/ \E r \in Reqs, p \in Procs, f \in FileIds : Receive(r, p, f)
    \/ \E r \in Reqs : GetMetadata(r)
    \/ \E r \in Reqs : OpenScratch(r)
    \/ \E r \in Reqs : NextChunk(r)
    \/ \E r \in Reqs : LoadDocument(r)
    \/ \E r \in Reqs : ChunkDocuments(r)
    \/ \E r \in Reqs : EmbedAndStore(r)

Spec == Init /\ [][Next]_vars

(***************************************************************************)
(* chunk_documents on its own: one document whose text is a sequence of    *)
(* at most MaxWords words, each a run of "x" preceded by a separator.      *)
(***************************************************************************)
Word(sep, len) == [sep |-> sep, len |-> len]

Words ==
    {Word(<<>>, 3900), Word(<<>>, 5100), Word(<<" ">>, 150), Word(<<" ">>, 3900),
     Word(<<"\n">>, 3900), Word(<<"\n", "\n">>, 150), Word(<<"\n", "\n">>, 4100)}

WordSeqs == UNION {[1..n -> Words] : n \in 0..MaxWords}

RECURSIVE TextOf(_)
TextOf(words) ==
    IF words = <<>> THEN <<>>
    ELSE Head(words).sep \o Run("x", Head(words).len) \o TextOf(Tail(words))

InitChunk ==
    /\ drive = {}
    /\ req = [r \in Reqs |-> NewRequest]
    /\ fs = <<>>
    /\ points = 0
    /\ cin \in WordSeqs
    /\ cout = <<>>
    /\ cpc = "ready"

ChunkInput ==
    /\ cpc = "ready"
    /\ cout' = chunk_documents(<<TextOf(cin)>>)
    /\ cpc' = "done"
    /\ UNCHANGED <<drive, req, fs, points, cin>>

NextChunkSpec == ChunkInput

SpecChunk == InitChunk /\ [][NextChunkSpec]_vars

(***************************************************************************)
(* Properties.                                                             *)
(***************************************************************************)
Called(rec, op) == rec.calls[op] > 0

\* the calls of a request that have started and neither returned nor raised
InProgress(rec) == {o \in OpSet : Called(rec, o) /\ o \notin rec.returned /\ o \notin rec.raised}

IsSuccess(rec) == rec.pc = "responded" /\ DOMAIN rec.response = {"status", "file", "chunks"}

IsFailure(rec) == rec.pc = "responded" /\ DOMAIN rec.response = {"error"}

\* C1: within a request the stages run in the order get_metadata, download (fetch),
\* load_document (parse), chunk_documents, embed_and_store: a stage has started only
\* if the stage before it has returned, and at most one stage of a request is in
\* progress at a time.
C1_StagesInOrder ==
    \A r \in Reqs :
        /\ \A i \in 2..Len(Ops) : Called(req[r], Ops[i]) => Ops[i - 1] \in req[r].returned
        /\ Cardinality(InProgress(req[r])) <= 1
        /\ req[r].returned \cap req[r].raised = {}

\* a request has come to its last stage and every stage has returned
C1_Witness ==
    \E r \in Reqs :
        /\ Called(req[r], "embed_and_store")
        /\ req[r].returned = OpSet

\* C2: when a stage raises, the request ends at once in the failure result: no later
\* stage is ever called, the scratch file it opened stays in the scratch directory
\* and the points it stored stay in the collection; a request whose identifier does
\* not resolve gets the not-found error, calls none of load_document,
\* chunk_documents and embed_and_store, and leaves the collection as it was.
C2_HaltOnFailure ==
    \A r \in Reqs :
        /\ \A i \in 1..Len(Ops) :
              Ops[i] \in req[r].raised =>
                  /\ IsFailure(req[r])
                  /\ \A j \in (i + 1)..Len(Ops) : ~Called(req[r], Ops[j])
        /\ req[r].file_path # <<>> => req[r].file_path \in DOMAIN fs
        /\ points >= req[r].stored
        /\ (req[r].pc \notin {"idle", "metadata"} /\ ~Exists(req[r].file_id)) =>
              /\ req[r].response = [error |-> NotFound(req[r].file_id).text]
              /\ \A j \in 2..Len(Ops) : ~Called(req[r], Ops[j])
              /\ req[r].stored = 0

\* a request failed in load_document after its download, and its scratch file is there
C2_Witness ==
    \E r \in Reqs :
        /\ "load_document" \in req[r].raised
        /\ "download_file_from_drive" \in req[r].returned
        /\ req[r].file_path \in DOMAIN fs
        /\ IsFailure(req[r])

\* C3: a request that has ended has returned either the success envelope, after all
\* the stages returned and with chunks the number of chunks chunk_documents gave
\* this request, or the failure envelope, after a stage raised; never both, never
\* neither, and no exception leaves the handler.
C3_OneOutcome ==
    \A r \in Reqs :
        /\ req[r].pc # "propagated"
        /\ req[r].pc = "responded" <=> req[r].response # NoResponse
        /\ req[r].pc = "responded" => (IsSuccess(req[r]) \/ IsFailure(req[r]))
        /\ req[r].raised # {} => IsFailure(req[r])
        /\ IsSuccess(req[r]) =>
              /\ req[r].returned = OpSet
              /\ req[r].raised = {}
              /\ req[r].response.status = "success"
              /\ req[r].response.file = DriveName(req[r].file_id)
              /\ req[r].response.chunks = Len(chunk_documents(req[r].docs))
        /\ IsFailure(req[r]) =>
              /\ Cardinality(req[r].raised) = 1
              /\ req[r].returned # OpSet

\* one request answered with the success envelope and another with the failure one
C3_Witness ==
    \E r1, r2 \in Reqs :
        /\ IsSuccess(req[r1]) /\ req[r1].response.chunks = 2
        /\ IsFailure(req[r2]) /\ "embed_and_store" \in req[r2].raised

\* C4: the data load_document reads is a complete copy of the content of the file
\* the request fetched.
C4_ParseReadsCompleteCopy ==
    \A r \in Reqs : req[r].read.done => req[r].read.data = DriveContent(req[r].file_id)

RECURSIVE SumOver(_, _)
SumOver(f, n) == IF n = 0 THEN 0 ELSE f[n] + SumOver(f, n - 1)

\* the chunk counts of the requests that returned success, added up
SuccessChunks ==
    SumOver([r \in Reqs |-> IF IsSuccess(req[r]) THEN Len(req[r].chunks) ELSE 0], MaxReqs)

\* C5: the number of points in the collection is the sum of the chunk counts of the
\* requests that returned success.
C5_PointsAreSuccessChunks == points = SuccessChunks

\* C6: load_document on a path whose extension is none of .pdf, .txt, .csv raises
\* "Unsupported file format: <ext>" with no loader made, the request answers with
\* that error and never calls chunk_documents or embed_and_store; on a path with
\* one of the three extensions the loader of that format is the one made.
C6_ParserFailsClosed ==
    \A r \in Reqs :
        Called(req[r], "load_document") =>
            LET ext == lower(splitext_ext(req[r].file_path))
            IN  /\ ext = pdf => req[r].loader = "PyPDFLoader"
                /\ ext = txt => req[r].loader = "TextLoader"
                /\ ext = csv => req[r].loader = "CSVLoader"
                /\ ext \notin {pdf, txt, csv} =>
                      /\ req[r].loader = "none"
                      /\ req[r].response = [error |-> <<"Unsupported file format: ", ext>>]
                      /\ ~Called(req[r], "chunk_documents")
                      /\ ~Called(req[r], "embed_and_store")
                      /\ req[r].stored = 0
                /\ req[r].file_id = "f4" =>
                      req[r].response =
                          [error |-> <<"Unsupported file format: ", <<".", "d", "o", "c", "x">>>>]
                /\ req[r].file_id = "f5" => req[r].loader = "CSVLoader"
                /\ req[r].file_id = "f6" => req[r].loader = "PyPDFLoader"
                /\ req[r].file_id \in {"f7", "f8"} =>
                      req[r].response = [error |-> <<"Unsupported file format: ", <<>>>>]

\* the .docx file was refused
C6_Witness ==
    \E r \in Reqs :
        /\ req[r].file_id = "f4"
        /\ "load_document" \in req[r].raised
        /\ IsFailure(req[r])

\* C7: no stage is called more than once in a request, and a stage that raised is
\* not called again: the request has ended.
C7_NoRetry ==
    \A r \in Reqs :
        /\ \A o \in OpSet : req[r].calls[o] <= 1
        /\ req[r].raised # {} => Terminal(req[r])

\* a download that failed after its first block, and was not started again
C7_Witness ==
    \E r \in Reqs :
        /\ "download_file_from_drive" \in req[r].raised
        /\ req[r].offset = 1
        /\ Terminal(req[r])

\* the requests that have computed their scratch path
HasPath(rec) == rec.file_path # <<>>

HasSlash(name) == \E i \in 1..Len(name) : name[i] = "/"

\* C9 as stated: two requests use the same scratch path exactly when the display
\* names of their files are the same.
C9_SamePathIffSameName ==
    \A r1, r2 \in Reqs :
        (HasPath(req[r1]) /\ HasPath(req[r2])) =>
            (req[r1].file_path = req[r2].file_path <=> req[r1].file_name = req[r2].file_name)

\* C9, amended: the scratch path is decided by the display name alone (the same
\* name gives the same path whatever the identifiers); display names that differ
\* and hold no "/" give different paths; and load_document reads what is under the
\* path when it runs, so a request reads something else than the content it
\* fetched only when another request has opened the same path.
C9_PathByNameAlone ==
    \A r1, r2 \in Reqs :
        /\ HasPath(req[r1]) => req[r1].file_path = path_join(tempdir, DriveName(req[r1].file_id))
        /\ (HasPath(req[r1]) /\ HasPath(req[r2])) =>
              /\ req[r1].file_name = req[r2].file_name => req[r1].file_path = req[r2].file_path
              /\ ( /\ req[r1].file_name # req[r2].file_name
                   /\ ~HasSlash(req[r1].file_name)
                   /\ ~HasSlash(req[r2].file_name) )
                 => req[r1].file_path # req[r2].file_path
        /\ (req[r1].read.done /\ req[r1].read.data # DriveContent(req[r1].file_id)) =>
              \E r \in Reqs \ {r1} : HasPath(req[r]) /\ req[r].file_path = req[r1].file_path

\* a request for f1 has read, and chunked, the content of f2, which has the same name
C9_Witness ==
    \E r1, r2 \in Reqs :
        /\ req[r1].file_id = "f1" /\ req[r2].file_id = "f2"
        /\ req[r1].file_path = req[r2].file_path
        /\ req[r1].read.done /\ req[r1].read.data = DriveContent("f2")
        /\ Called(req[r1], "chunk_documents")

\* C10: the handler has no suspension point: a process runs one handler from its
\* first stage to its response before it starts another, so no two requests of one
\* process are in their stages at the same time.
C10_OneHandlerPerLoop ==
    \A r1, r2 \in Reqs :
        (r1 # r2 /\ req[r1].proc # NoProc /\ req[r1].proc = req[r2].proc) =>
            ~(Active(req[r1]) /\ Active(req[r2]))

\* a process has answered one request and is in the stages of the next, while a
\* request is served by the same process
C10_Witness ==
    \E r1, r2 \in Reqs :
        /\ r1 # r2 /\ req[r1].proc = req[r2].proc
        /\ Terminal(req[r1]) /\ Active(req[r2])
        /\ Called(req[r2], "download_file_from_drive")

(***************************************************************************)
(* Properties of chunk_documents (SpecChunk).                              *)
(***************************************************************************)
\* the text chunk_documents was given
CText == TextOf(cin)

WinLen(w) == w.last - w.first + 1

\* the characters two windows share
Overlap(v, w) == IF v.last >= w.first THEN v.last - w.first + 1 ELSE 0

Covered(pos) == \E i \in 1..Len(cout) : cout[i].first <= pos /\ pos <= cout[i].last

HasWs(text) == \E i \in 1..Len(text) : IsWs(text[i])

\* the 9 000 characters of the example, with no separator among them
Example9000 == <<Word(<<>>, 3900), Word(<<>>, 5100)>>

=============================================================================
